---------------------------- MODULE Spec2Model ----------------------------
(*************************************************************************)
(* yahoojp-byline-feed: the command-line run (command/main.py), the      *)
(* single-file output handler's merge, the entry extraction and the date *)
(* resolution (parse.py), and the RSS rendering gate (feed.py).          *)
(*                                                                       *)
(* Conventions.                                                          *)
(*  - A Python str is the sequence of its characters (one-character      *)
(*    strings): "9/2" is <<"9", "/", "2">>.                              *)
(*  - Optional[T] is a set with at most one element: None is {} and a    *)
(*    present value v is {v}.                                            *)
(*  - A call that may raise returns [exc, val]: exc is "none" or the     *)
(*    name of the exception.                                             *)
(*************************************************************************)
EXTENDS Integers, Sequences, FiniteSets, TLC

VARIABLES
    \* ---- main(): command/main.py
    pc,             \* main: "start" | "loop" | "rejected" | "exited"; handler: "collect" |
                    \* "finished"; pure calls: "input" | "resolved" | "extracted"
    author_keys,    \* Args.author_keys
    output_directory, \* Args.output_directory (Optional[str])
    output_file,    \* Args.output_file (Optional[str])
    http_wait,      \* Args.http_wait
    key_idx,        \* position of the for loop in Args.author_keys (1-based)
    nerrors,        \* main's failure counter
    wait,           \* main's local: the next sleep
    outcomes,       \* history: per processed key "fetch" | "parse" | "validate" | "ok"
    events,         \* history: <<"sleep", n>> and <<"fetch", key>> in call order
    exit_code,      \* {} while running, {n} once the process has exited
    raised,         \* "none", or the exception that ended the process / finish()
    \* ---- SingleFileOutputHandler / SeparateFileOutputHandler
    feed_list,      \* SingleFileOutputHandler.feed_list
    written,        \* history: [file, rss] for every document written
    make_rss_args,  \* history: every FeedData passed to make_rss
    synthetic,      \* Optional[FeedData]: the merged feed finish() built
    \* ---- parse_pubdate
    date_str,       \* the argument text
    date_src,       \* the fragments date_str was assembled from
    this_year,      \* Optional[int]: the reference year argument
    now_utc,        \* the clock at resolution time
    resolved,       \* the call's result
    \* ---- extract_entries
    document,       \* the parsed document (soup), reduced to what extraction reads
    extracted       \* the call's result

mainVars == <<author_keys, output_directory, output_file, http_wait, key_idx,
              nerrors, wait, outcomes, events, exit_code>>
handlerVars == <<feed_list, written, make_rss_args, synthetic, raised>>
dateVars == <<date_str, date_src, this_year, now_utc, resolved>>
extractVars == <<document, extracted>>
vars == <<pc, mainVars, handlerVars, dateVars, extractVars>>

\* ------------------------------------------------------------------ bounds

\* Longest key list given on the command line and in the key file together.
MaxKeys == 4
\* Most feeds handed to one SingleFileOutputHandler in the merge specification.
MaxFeeds == 2
\* Most entries of all feeds of one merge together.
MaxMergeEntries == 3
\* Most list items of one document in the extraction specification.
MaxItems == 2

\* ----------------------------------------------------------------- helpers

None == {}
Some(x) == {x}
Val(o) == CHOOSE x \in o : TRUE

Ok(v) == [exc |-> "none", val |-> v]
Raise(e, v) == [exc |-> e, val |-> v]

SeqsUpTo(S, n) == UNION {[1..k -> S] : k \in 0..n}

Reverse(s) == [i \in 1..Len(s) |-> s[Len(s) + 1 - i]]

RECURSIVE Concat(_)
Concat(ss) == IF ss = <<>> THEN <<>> ELSE Head(ss) \o Concat(Tail(ss))

\* The characters of the model's strings, in code point order.
Alphabet ==
    <<" ", "(", ")", ",", "-", ".", "/",
      "0", "1", "2", "3", "4", "5", "6", "7", "8", "9", ":",
      "A", "B", "T", "U", "W", "_", "a", "b", "c", "d", "r", "s", "x">>

Ord(c) == CHOOSE i \in 1..Len(Alphabet) : Alphabet[i] = c

Digits == {"0", "1", "2", "3", "4", "5", "6", "7", "8", "9"}

DigitVal(c) == Ord(c) - Ord("0")

\* str < str: lexicographic by code point, a proper prefix first.
RECURSIVE StrLT(_, _)
StrLT(a, b) ==
    IF b = <<>> THEN FALSE
    ELSE IF a = <<>> THEN TRUE
    ELSE IF Head(a) # Head(b) THEN Ord(Head(a)) < Ord(Head(b))
    ELSE StrLT(Tail(a), Tail(b))

\* int(str) of a string of decimal digits.
RECURSIVE int(_)
int(s) == IF s = <<>> THEN 0 ELSE 10 * int(SubSeq(s, 1, Len(s) - 1)) + DigitVal(s[Len(s)])


\* ------------------------------------------------- parse.py: parse_pubdate

\* TZ_TOKYO = gettz('Asia/Tokyo')
TZ_TOKYO == "Asia/Tokyo"

IsLeap(y) == (y % 4 = 0 /\ y % 100 # 0) \/ y % 400 = 0

DaysInMonth(y, m) ==
    IF m = 2 THEN (IF IsLeap(y) THEN 29 ELSE 28)
    ELSE IF m \in {4, 6, 9, 11} THEN 30 ELSE 31

\* datetime(year, month, day, hour, minute, tzinfo=...): ValueError outside
\* the calendar.
datetime(year, month, day, hour, minute, tz) ==
    IF /\ year \in 1..9999
       /\ month \in 1..12
       /\ day \in 1..DaysInMonth(year, month)
       /\ hour \in 0..23
       /\ minute \in 0..59
    THEN Ok(Some([year |-> year, month |-> month, day |-> day,
                  hour |-> hour, minute |-> minute, tzinfo |-> tz]))
    ELSE Raise("ValueError", None)

\* datetime.now(TZ_TOKYO).year for a clock reading given in UTC: Asia/Tokyo
\* is nine hours ahead, so the year turns at 15:00 UTC on 31 December.
TokyoYearNow(now) ==
    IF now.month = 12 /\ now.day = 31 /\ now.hour >= 15
    THEN now.year + 1 ELSE now.year

\* One way for date_regexp to match from a position: y = 1 when the optional
\* year group takes part, ml the width of the month alternative ([1-9] is 1,
\* 1[012] is 2), dl the width of the day.
DateWays == [y : {0, 1}, ml : {1, 2}, dl : {1, 2}]

\* One way for time_regexp to match: hl and nl the widths of hour and minute.
TimeWays == [hl : {1, 2}, nl : {1, 2}]

AllDigits(s, from, n) ==
    \A k \in 0..(n - 1) : from + k \in 1..Len(s) /\ s[from + k] \in Digits

MonthAt(p, d) == p + 5 * d.y
DayAt(p, d) == p + 5 * d.y + d.ml + 1
DateEnd(p, d) == p + 5 * d.y + d.ml + d.dl

\* (?:([0-9]{4})/)?([1-9]|1[012])/([123]?[0-9]) from position p
DateMatchesAt(s, p, d) ==
    /\ DateEnd(p, d) <= Len(s)
    /\ d.y = 1 => AllDigits(s, p, 4) /\ s[p + 4] = "/"
    /\ IF d.ml = 1 THEN s[MonthAt(p, d)] \in Digits \ {"0"}
       ELSE s[MonthAt(p, d)] = "1" /\ s[MonthAt(p, d) + 1] \in {"0", "1", "2"}
    /\ s[DayAt(p, d) - 1] = "/"
    /\ IF d.dl = 2 THEN s[DayAt(p, d)] \in {"1", "2", "3"} /\ s[DayAt(p, d) + 1] \in Digits
       ELSE s[DayAt(p, d)] \in Digits

\* ([0-9]{1,2}):([0-9]{1,2}) from position h
TimeMatchesAt(s, h, t) ==
    /\ h + t.hl + t.nl <= Len(s)
    /\ AllDigits(s, h, t.hl)
    /\ s[h + t.hl] = ":"
    /\ AllDigits(s, h + t.hl + 1, t.nl)

\* Every match of date_regexp + '.*?' + time_regexp in s: <<p, d, h, t>>, the
\* date from p in way d, the time from h in way t, '.*?' over what lies
\* between (no character of the model's texts is a line break).
Matches(s) ==
    LET dates == {m \in (1..Len(s)) \X DateWays : DateMatchesAt(s, m[1], m[2])}
        times == {m \in (1..Len(s)) \X TimeWays : TimeMatchesAt(s, m[1], m[2])}
    IN  {<<m[1][1], m[1][2], m[2][1], m[2][2]>> :
            m \in {n \in dates \X times : n[2][1] > DateEnd(n[1][1], n[1][2])}}

\* The order in which the backtracking matcher tries the ways: the optional
\* group first, the alternatives left to right, greedy widths longest first,
\* the lazy '.*?' shortest first.
TryOrder(m) ==
    <<m[1], 1 - m[2].y, m[2].ml, 2 - m[2].dl, m[3], 2 - m[4].hl, 2 - m[4].nl>>

RECURSIVE LexLT(_, _)
LexLT(a, b) ==
    IF a = <<>> \/ b = <<>> THEN FALSE
    ELSE IF Head(a) # Head(b) THEN Head(a) < Head(b)
    ELSE LexLT(Tail(a), Tail(b))

Groups(s, p, d, h, t) ==
    [g1 |-> IF d.y = 1 THEN Some(SubSeq(s, p, p + 3)) ELSE None,
     g2 |-> SubSeq(s, MonthAt(p, d), MonthAt(p, d) + d.ml - 1),
     g3 |-> SubSeq(s, DayAt(p, d), DayAt(p, d) + d.dl - 1),
     g4 |-> SubSeq(s, h, h + t.hl - 1),
     g5 |-> SubSeq(s, h + t.hl + 1, h + t.hl + t.nl)]

FirstMatch(found) ==
    CHOOSE w \in found : \A v \in found : v = w \/ LexLT(TryOrder(w), TryOrder(v))

GroupsOf(s, m) == Groups(s, m[1], m[2], m[3], m[4])

\* re.search: the leftmost position with a match, and there the first way
\* tried that matches. Optional: None when nothing matches, else the groups.
SearchIn(s, found) == IF found = {} THEN None ELSE Some(GroupsOf(s, FirstMatch(found)))

re_search(s) == SearchIn(s, Matches(s))

\* safe_int: int(x) if x else None
safe_int(x) == IF x = None \/ Val(x) = <<>> THEN None ELSE Some(int(Val(x)))

\* parse_pubdate(date_str, this_year): 'if not year' holds for None and for 0.
parse_pubdate(str, ref_year, now) ==
    LET m == re_search(str) IN
    IF m = None THEN Ok(None)
    ELSE LET g == Val(m)
             year == safe_int(g.g1)
             used == IF year = None \/ Val(year) = 0
                     THEN (IF ref_year = None THEN TokyoYearNow(now) ELSE Val(ref_year))
                     ELSE Val(year)
         IN  datetime(used, int(g.g2), int(g.g3), int(g.g4), int(g.g5), TZ_TOKYO)

\* Inputs of the date resolution specification: texts assembled from
\* fragments, and texts without a date and time.
DateFragments ==
    [prefix : {<<>>, <<"x", " ">>},
     year   : {None, Some(<<"0", "0", "0", "0">>), Some(<<"2", "0", "1", "9">>)},
     month  : {<<"2">>, <<"9">>, <<"1", "2">>},
     day    : {<<"3">>, <<"2", "9">>, <<"3", "1">>},
     mid    : {<<" ">>, <<"(", "W", ")", " ">>},
     hour   : {<<"8">>, <<"2", "2">>},
     minute : {<<"3", "2">>, <<"0", "5">>}]

Assemble(f) ==
    f.prefix \o (IF f.year = None THEN <<>> ELSE Val(f.year) \o <<"/">>)
             \o f.month \o <<"/">> \o f.day \o f.mid \o f.hour \o <<":">> \o f.minute

PlainTexts == {<<>>, <<"x", " ", "x">>, <<"9", "/", "2">>, <<"8", ":", "3", "2">>}

ReferenceYears == {None, Some(2020)}

Clocks ==
    {[year |-> 2020, month |-> 12, day |-> 31, hour |-> 14, minute |-> 59],
     [year |-> 2020, month |-> 12, day |-> 31, hour |-> 15, minute |-> 0]}

\* --------------------------------------------- parse.py: entry extraction

\* A Tag is [attrs, strings]: attrs maps attribute names to values, strings
\* are its text nodes in document order. A list item is reduced to what the
\* selectors of parse_entry find under it.
Tag(attrs, strings) == [attrs |-> attrs, strings |-> strings]

NoAttrs == [n \in {} |-> <<>>]

\* select1: results and results[0] or None (a Tag is always truthy)
select1(results) == IF results = <<>> THEN None ELSE Some(results[1])

\* tag[key]: KeyError when the attribute is missing
GetItem(tag, key) ==
    IF key \in DOMAIN tag.attrs THEN Ok(Some(tag.attrs[key])) ELSE Raise("KeyError", None)

\* ''.join(elem.strings)
JoinStrings(tag) == Concat(tag.strings)

extract_entry_link(entry_elem) ==
    LET link == select1(entry_elem.a_entryBody)
    IN  IF link = None THEN Ok(None) ELSE GetItem(Val(link), "href")

extract_entry_thumbnail(entry_elem) ==
    LET thumb == select1(entry_elem.dd_thumb_img)
    IN  IF thumb = None THEN Ok(None) ELSE GetItem(Val(thumb), "src")

extract_entry_title(entry_elem) ==
    LET ttl == select1(entry_elem.dt_ttl)
    IN  IF ttl = None THEN Ok(None) ELSE Ok(Some(JoinStrings(Val(ttl))))

extract_entry_summary(entry_elem) ==
    LET elem == select1(entry_elem.dd_summary)
    IN  IF elem = None THEN Ok(None) ELSE Ok(Some(JoinStrings(Val(elem))))

extract_entry_pubdate(entry_elem, now) ==
    LET elem == select1(entry_elem.dd_pubdate)
    IN  IF elem = None THEN Ok(None) ELSE parse_pubdate(JoinStrings(Val(elem)), None, now)

Entry(url, title, summary, pubdate, thumbnail) ==
    [url |-> url, title |-> title, summary |-> summary,
     pubdate |-> pubdate, thumbnail |-> thumbnail]

NoEntry == Entry(None, None, None, None, None)

\* parse_entry: the five extractions in order; the first exception propagates.
FirstRaised(results) ==
    LET bad == {i \in 1..Len(results) : results[i].exc # "none"}
    IN  IF bad = {} THEN "none"
        ELSE results[CHOOSE i \in bad : \A j \in bad : i <= j].exc

EntryFrom(r, exc) ==
    IF exc # "none" THEN Raise(exc, NoEntry)
    ELSE Ok(Entry(r[1].val, r[3].val, r[4].val, r[5].val, r[2].val))

ParseEntryResults(r) == EntryFrom(r, FirstRaised(r))

parse_entry(entry_elem, now) ==
    ParseEntryResults(<<extract_entry_link(entry_elem),
                        extract_entry_thumbnail(entry_elem),
                        extract_entry_title(entry_elem),
                        extract_entry_summary(entry_elem),
                        extract_entry_pubdate(entry_elem, now)>>)

\* list.find_all('li', class='entry')
HasClassEntry(li) == li.class_entry
find_all_entries(items) == SelectSeq(items, HasClassEntry)

\* [ parse_entry(x) for x in entry_elems ]: the first exception ends it.
ParseAll(elems, now) ==
    LET results == [i \in 1..Len(elems) |-> parse_entry(elems[i], now)]
        exc == FirstRaised(results)
    IN  IF exc # "none" THEN Raise(exc, <<>>)
        ELSE Ok([i \in 1..Len(elems) |-> results[i].val])

\* extract_entries(soup): soup.athr_al is soup.find(id='athr_al')
extract_entries(soup, now) ==
    IF soup.athr_al = None THEN Ok(<<>>)
    ELSE ParseAll(find_all_entries(Val(soup.athr_al)), now)

\* Inputs of the extraction specification.
ListItems ==
    [class_entry  : BOOLEAN,
     a_entryBody  : {<<>>, <<Tag(NoAttrs, <<>>)>>, <<Tag([n \in {"href"} |-> <<"U">>], <<>>)>>},
     dd_thumb_img : {<<>>, <<Tag(NoAttrs, <<>>)>>, <<Tag([n \in {"src"} |-> <<"T">>], <<>>)>>},
     dt_ttl       : {<<>>, <<Tag(NoAttrs, << <<"a">>, <<"b">> >>)>>},
     dd_summary   : {<<Tag(NoAttrs, << <<"s">> >>)>>},
     dd_pubdate   : {<<>>,
                     <<Tag(NoAttrs, << <<"9", "/", "2", "(", "W", ")", " ">>, <<"8", ":", "3", "2">> >>)>>,
                     <<Tag(NoAttrs, << <<"2", "/", "3", "1", " ", "8", ":", "3", "2">> >>)>>}]

Documents ==
    {[athr_al |-> None]} \cup {[athr_al |-> Some(items)] : items \in SeqsUpTo(ListItems, MaxItems)}

\* ------------------------------------------------ FeedData and validation

FeedData(title, url, author, description, entries) ==
    [title |-> title, url |-> url, author |-> author,
     description |-> description, entries |-> entries]

\* 'not x' for an Optional[str]: None and the empty string are falsy.
Falsy(x) == x = None \/ Val(x) = <<>>

ValidateWithoutAuthor(data) == ~Falsy(data.title) /\ ~Falsy(data.url)

\* validate_feeddata: author, title and url are required; no entries is valid.
validate_feeddata(data) ==
    IF Falsy(data.author) THEN FALSE
    ELSE IF Falsy(data.title) THEN FALSE
    ELSE IF Falsy(data.url) THEN FALSE
    ELSE TRUE

\* ------------------------------------------------------ feed.py: make_rss

\* The channel title's fixed suffix (the source's text, shortened to ASCII).
RSS_TITLE_SUFFIX == <<" ", "-", " ", "R", "S", "S">>

NoRss == [title |-> <<>>, link |-> None, description |-> None, language |-> <<>>,
          author_name |-> <<>>, items |-> <<>>]

make_rss(feeddata) ==
    IF Falsy(feeddata.author) THEN Raise("ValueError", NoRss)
    ELSE LET author == Val(feeddata.author) IN
         Ok([title |-> author \o RSS_TITLE_SUFFIX,
             link |-> feeddata.url,
             description |-> feeddata.description,
             language |-> <<"j", "a">>,
             author_name |-> author,
             items |-> [i \in 1..Len(feeddata.entries) |->
                           [title |-> feeddata.entries[i].title,
                            link |-> feeddata.entries[i].url,
                            description |-> feeddata.entries[i].summary,
                            author_name |-> author,
                            pubdate |-> feeddata.entries[i].pubdate]]])

\* ------------------------------------- sorted(..., key=..., reverse=True)

\* datetime < datetime, both in the same zone
DatetimeLT(a, b) ==
    LexLT(<<a.year, a.month, a.day, a.hour, a.minute>>,
          <<b.year, b.month, b.day, b.hour, b.minute>>)

\* key(a) < key(b) for key = [entry.pubdate, entry.title]: lists compare by
\* their first differing element, and None orders with nothing.
KeyCmp(a, b) ==
    IF a.pubdate # b.pubdate
    THEN IF a.pubdate = None \/ b.pubdate = None THEN "TypeError"
         ELSE IF DatetimeLT(Val(a.pubdate), Val(b.pubdate)) THEN "lt" ELSE "ge"
    ELSE IF a.title # b.title
    THEN IF a.title = None \/ b.title = None THEN "TypeError"
         ELSE IF StrLT(Val(a.title), Val(b.title)) THEN "lt" ELSE "ge"
    ELSE "ge"

\* One insertion of the stable ascending sort: x goes after every element it
\* is not less than; a comparison that raises ends the sort.
RECURSIVE Insert(_, _)
Insert(sorted, x) ==
    IF sorted = <<>> THEN Ok(<<x>>)
    ELSE LET last == sorted[Len(sorted)]
             c == KeyCmp(x, last)
         IN  IF c = "TypeError" THEN Raise("TypeError", <<>>)
             ELSE IF c = "ge" THEN Ok(Append(sorted, x))
             ELSE LET r == Insert(SubSeq(sorted, 1, Len(sorted) - 1), x)
                  IN  IF r.exc # "none" THEN r ELSE Ok(Append(r.val, last))

RECURSIVE SortFrom(_, _)
SortFrom(sorted, rest) ==
    IF rest = <<>> THEN Ok(sorted)
    ELSE LET r == Insert(sorted, Head(rest))
         IN  IF r.exc # "none" THEN r ELSE SortFrom(r.val, Tail(rest))

\* list.sort(): stable, ascending
StableSort(list) == SortFrom(<<>>, list)

SortedReverseUnstable(list) ==
    LET r == StableSort(list)
    IN  IF r.exc # "none" THEN r ELSE Ok(Reverse(r.val))

\* sorted(list, key=..., reverse=True): the list is reversed, sorted
\* ascending and reversed again, which keeps equal keys in their input order.
SortedReverse(list) ==
    LET r == StableSort(Reverse(list))
    IN  IF r.exc # "none" THEN r ELSE Ok(Reverse(r.val))

\* --------------------------------- command/main.py: the output handlers

\* ', '.join(strs): TypeError on an item that is not a str
RECURSIVE Join(_)
Join(strs) ==
    IF strs = <<>> THEN Ok(<<>>)
    ELSE IF Head(strs) = None THEN Raise("TypeError", <<>>)
    ELSE IF Len(strs) = 1 THEN Ok(Val(Head(strs)))
    ELSE LET r == Join(Tail(strs))
         IN  IF r.exc # "none" THEN r ELSE Ok(Val(Head(strs)) \o <<",", " ">> \o r.val)

\* The merged feed's title suffix (the source's text, shortened to ASCII).
MERGED_TITLE_SUFFIX == <<" ", "-", " ", "Y", "!">>

FinishResult(exc, syn, calls, out) ==
    [exc |-> exc, synthetic |-> syn, calls |-> calls, out |-> out]

\* SingleFileOutputHandler.finish() on feed_list: the exception it ends
\* with, the synthetic feed it built, the arguments of its make_rss calls
\* and the documents it handed to output().
SingleFileFinish(feeds) ==
    IF Len(feeds) = 1
    THEN LET rss == make_rss(feeds[1]) IN
         IF rss.exc # "none" THEN FinishResult(rss.exc, None, <<feeds[1]>>, <<>>)
         ELSE FinishResult("none", None, <<feeds[1]>>, <<rss.val>>)
    ELSE LET authors == Join([i \in 1..Len(feeds) |-> feeds[i].author]) IN
         IF authors.exc # "none" THEN FinishResult(authors.exc, None, <<>>, <<>>)
         ELSE IF feeds = <<>> THEN FinishResult("IndexError", None, <<>>, <<>>)
         ELSE LET entries == SortedReverse(Concat([i \in 1..Len(feeds) |-> feeds[i].entries])) IN
              IF entries.exc # "none" THEN FinishResult(entries.exc, None, <<>>, <<>>)
              ELSE LET data == FeedData(Some(authors.val \o MERGED_TITLE_SUFFIX),
                                        feeds[1].url, Some(authors.val), Some(<<>>),
                                        entries.val)
                       rss == make_rss(data)
                   IN  IF rss.exc # "none"
                       THEN FinishResult(rss.exc, Some(data), <<data>>, <<>>)
                       ELSE FinishResult("none", Some(data), <<data, data>>, <<rss.val>>)

\* key.replace('/', '_') + '.rss'
RssFileName(key) ==
    [i \in 1..Len(key) |-> IF key[i] = "/" THEN "_" ELSE key[i]] \o <<".", "r", "s", "s">>

\* --------------------------------------- command/main.py: options and keys

\* DEFAULT_HTTP_WAIT
DEFAULT_HTTP_WAIT == 5

\* The characters KEY_PATTERN = '[-a-zA-Z0-9]+$' accepts.
KeyChars ==
    {"-"} \cup Digits \cup
    {"a", "b", "c", "d", "e", "f", "g", "h", "i", "j", "k", "l", "m",
     "n", "o", "p", "q", "r", "s", "t", "u", "v", "w", "x", "y", "z",
     "A", "B", "C", "D", "E", "F", "G", "H", "I", "J", "K", "L", "M",
     "N", "O", "P", "Q", "R", "S", "T", "U", "V", "W", "X", "Y", "Z"}

\* is_valid_key: KEY_PATTERN.match(key); '$' matches at the end and before
\* a final newline.
is_valid_key(key) ==
    LET body == IF key # <<>> /\ key[Len(key)] = "\n"
                THEN SubSeq(key, 1, Len(key) - 1) ELSE key
    IN  body # <<>> /\ \A i \in 1..Len(body) : body[i] \in KeyChars

\* remove_duplicates: list(dict.fromkeys(lst)), the first occurrences in order
remove_duplicates(lst) ==
    LET firsts == {i \in 1..Len(lst) : \A j \in 1..(i - 1) : lst[j] # lst[i]}
        RECURSIVE Pick(_)
        Pick(i) == IF i > Len(lst) THEN <<>>
                   ELSE (IF i \in firsts THEN <<lst[i]>> ELSE <<>>) \o Pick(i + 1)
    IN  Pick(1)

\* parse_options on Args.author_keys: the file's keys and the command line's
\* are appended, duplicates removed, invalid keys dropped.
LoadKeys(old, file_keys, arg_keys) ==
    SelectSeq(remove_duplicates(old \o file_keys \o arg_keys), is_valid_key)

WaitRejectedBelowZero(w) == w < 0

\* parse_options: if args.wait < 1: exit(1)
WaitRejected(w) == w < 1

\* 'if args.directory' / 'if Args.output_directory'
SeparateMode(dir) == ~Falsy(dir)

\* Inputs of parse_options.
KeyUniverse == {<<"a">>, <<"b", "-", "1">>, <<"c">>, <<"D", "2">>, <<"a", "/", "b">>}
WaitArgs == {0, 1, DEFAULT_HTTP_WAIT}
DirectoryArgs == {None, Some(<<"d">>)}
OutputArgs == {None, Some(<<"o">>)}

\* Inputs of the loop: what parse(html) can return. extract_author gives an
\* author only from a title, and never an empty one.
D20210101 == [year |-> 2021, month |-> 1, day |-> 1, hour |-> 0, minute |-> 0, tzinfo |-> TZ_TOKYO]
D20210201 == [year |-> 2021, month |-> 2, day |-> 1, hour |-> 0, minute |-> 0, tzinfo |-> TZ_TOKYO]
D20210301 == [year |-> 2021, month |-> 3, day |-> 1, hour |-> 0, minute |-> 0, tzinfo |-> TZ_TOKYO]

MainEntrySeqs ==
    {<<>>} \cup {<<Entry(Some(<<"U">>), Some(<<"a">>), Some(<<"s">>), d, None)>> :
                    d \in {None, Some(D20210101)}}

ParsedFeeds ==
    {FeedData(f.title, f.url, f.author, None, f.entries) :
        f \in {g \in [title : {None, Some(<<"T">>)}, url : {None, Some(<<"U">>)},
                      author : {None, Some(<<"A">>)},
                      entries : MainEntrySeqs] :
                  g.author # None => g.title # None}}

\* ------------------------------------------------ command/main.py: main()

TooManyErrorsAboveTwo(n) == n > 2

\* if nerrors >= 2: exit(1)
TooManyErrors(n) == n >= 2

nerrors_reset_on_success(outcome, n) == IF outcome = "ok" THEN 0 ELSE n + 1

\* The counter after one key: every failing branch does nerrors += 1.
nerrors_after(outcome, n) == IF outcome = "ok" THEN n ELSE n + 1

Sleep(n) == [op |-> "sleep", secs |-> n, key |-> <<>>]
Fetch(k) == [op |-> "fetch", secs |-> 0, key |-> k]

Exit(code) == /\ exit_code' = Some(code)
              /\ pc' = "exited"

\* parse_options: exit(1) on a bad option
Reject == /\ exit_code' = Some(1)
          /\ pc' = "rejected"

\* main() up to the loop: parse_options, nerrors = 0, the handler, wait = 0.
MainStart ==
    /\ pc = "start"
    /\ \E n \in 0..MaxKeys, dir \in DirectoryArgs, out \in OutputArgs, w \in WaitArgs :
       \E raw \in [1..n -> KeyUniverse], nfile \in 0..n :
          \* argparse: nargs='+' wants a key on the command line, and -d and -o
          \* exclude each other
          /\ nfile < n
          /\ dir = None \/ out = None
          /\ author_keys' = LoadKeys(author_keys, SubSeq(raw, 1, nfile), SubSeq(raw, nfile + 1, n))
          /\ output_directory' = IF SeparateMode(dir) THEN dir ELSE output_directory
          /\ output_file' = IF SeparateMode(dir) THEN output_file ELSE out
          /\ IF WaitRejected(w)
             THEN Reject /\ UNCHANGED http_wait
             ELSE /\ http_wait' = w
                  /\ pc' = "loop"
                  /\ UNCHANGED exit_code
    /\ nerrors' = 0
    /\ wait' = 0
    /\ UNCHANGED <<key_idx, outcomes, events, handlerVars, dateVars, extractVars>>

InLoop == pc = "loop" /\ key_idx <= Len(author_keys)

\* if nerrors >= 2: exit(1), at the top of an iteration
Abort ==
    /\ InLoop
    /\ TooManyErrors(nerrors)
    /\ Exit(1)
    /\ UNCHANGED <<author_keys, output_directory, output_file, http_wait, key_idx,
                   nerrors, wait, outcomes, events, handlerVars, dateVars, extractVars>>

\* time.sleep(wait); wait = Args.http_wait; fetch(key) - and the bookkeeping
\* of one iteration that ends with the given outcome.
Iterate(outcome) ==
    /\ InLoop
    /\ ~TooManyErrors(nerrors)
    /\ events' = events \o <<Sleep(wait), Fetch(author_keys[key_idx])>>
    /\ wait' = http_wait
    /\ nerrors' = nerrors_after(outcome, nerrors)
    /\ outcomes' = Append(outcomes, outcome)
    /\ key_idx' = key_idx + 1
    /\ UNCHANGED <<author_keys, output_directory, output_file, http_wait, dateVars, extractVars>>

\* fetch(key) raises
FetchFails ==
    /\ Iterate("fetch")
    /\ UNCHANGED <<pc, exit_code, handlerVars>>

\* parse(html) raises
ParseFails ==
    /\ Iterate("parse")
    /\ UNCHANGED <<pc, exit_code, handlerVars>>

\* validate_feeddata(data) is false
ValidationFails ==
    /\ \E data \in ParsedFeeds : ~validate_feeddata(data)
    /\ Iterate("validate")
    /\ UNCHANGED <<pc, exit_code, handlerVars>>

\* output_handler.handle_author_feed(key, data)
KeySucceeds ==
    \E data \in ParsedFeeds :
       /\ validate_feeddata(data)
       /\ Iterate("ok")
       /\ IF SeparateMode(output_directory)
          THEN LET rss == make_rss(data) IN
               /\ make_rss_args' = Append(make_rss_args, data)
               /\ IF rss.exc # "none"
                  THEN raised' = rss.exc /\ Exit(1) /\ UNCHANGED written
                  ELSE /\ written' = Append(written,
                                        [file |-> Val(output_directory) \o <<"/">>
                                                    \o RssFileName(author_keys[key_idx]),
                                         rss |-> rss.val])
                       /\ UNCHANGED <<pc, exit_code, raised>>
               /\ UNCHANGED <<feed_list, synthetic>>
          ELSE /\ feed_list' = Append(feed_list, data)
               /\ UNCHANGED <<pc, exit_code, raised, written, make_rss_args, synthetic>>

\* The file SingleFileOutputHandler.output writes: outfile, or stdout.
OutFile == IF output_file = None THEN <<"-">> ELSE Val(output_file)

\* After the loop: output_handler.finish(); exit(int(nerrors != 0)). An
\* exception nobody catches ends the process with status 1.
Finish ==
    /\ pc = "loop"
    /\ key_idx > Len(author_keys)
    /\ IF SeparateMode(output_directory)
       THEN /\ Exit(IF nerrors # 0 THEN 1 ELSE 0)
            /\ UNCHANGED handlerVars
       ELSE LET r == SingleFileFinish(feed_list) IN
            /\ raised' = r.exc
            /\ synthetic' = r.synthetic
            /\ make_rss_args' = make_rss_args \o r.calls
            /\ written' = written \o [i \in 1..Len(r.out) |-> [file |-> OutFile, rss |-> r.out[i]]]
            /\ Exit(IF r.exc # "none" THEN 1 ELSE IF nerrors # 0 THEN 1 ELSE 0)
            /\ UNCHANGED feed_list
    /\ UNCHANGED <<author_keys, output_directory, output_file, http_wait, key_idx,
                   nerrors, wait, outcomes, events, dateVars, extractVars>>

MainIdle ==
    /\ author_keys = <<>>
    /\ output_directory = None
    /\ output_file = None
    /\ http_wait = DEFAULT_HTTP_WAIT
    /\ key_idx = 1
    /\ nerrors = 0
    /\ wait = 0
    /\ outcomes = <<>>
    /\ events = <<>>
    /\ exit_code = None

HandlerIdle ==
    /\ feed_list = <<>>
    /\ written = <<>>
    /\ make_rss_args = <<>>
    /\ synthetic = None
    /\ raised = "none"

Pending == [exc |-> "pending", val |-> None]

DateIdle ==
    /\ date_str = <<>>
    /\ date_src = None
    /\ this_year = None
    /\ now_utc \in Clocks
    /\ now_utc.hour = 14
    /\ resolved = Pending

ExtractIdle ==
    /\ document = [athr_al |-> None]
    /\ extracted = [exc |-> "pending", val |-> <<>>]

Init == pc = "start" /\ MainIdle /\ HandlerIdle /\ DateIdle /\ ExtractIdle

Next == MainStart \/ Abort \/ FetchFails \/ ParseFails \/ ValidationFails
           \/ KeySucceeds \/ Finish

Spec == Init /\ [][Next]_vars

\* ------------------- SingleFileOutputHandler on its own: collect and merge

\* What the sort key of an entry can be.
MergeKeys ==
    [pubdate : {None, Some(D20210101), Some(D20210201), Some(D20210301)},
     title   : {Some(<<"a">>), Some(<<"a", "b">>)}]

\* Every article has its own link: the n-th entry handed over gets link n.
ArticleUrl(n) == <<"/", Alphabet[Ord("0") + n]>>

EntriesHeld(feeds) == Len(Concat([i \in 1..Len(feeds) |-> feeds[i].entries]))

\* handle_author_feed(key, data) with a validated feed
Collect ==
    /\ pc = "collect"
    /\ Len(feed_list) < MaxFeeds
    /\ \E author \in {IF Len(feed_list) % 2 = 0 THEN <<"A">> ELSE <<"B">>},
          keys \in SeqsUpTo(MergeKeys, MaxMergeEntries - EntriesHeld(feed_list)) :
          LET data == FeedData(Some(<<"T">>), Some(<<"U">> \o author), Some(author), None,
                               [i \in 1..Len(keys) |->
                                   Entry(Some(ArticleUrl(EntriesHeld(feed_list) + i)),
                                         keys[i].title, Some(<<"s">>), keys[i].pubdate, None)])
          IN  /\ validate_feeddata(data)
              /\ feed_list' = Append(feed_list, data)
    /\ UNCHANGED <<pc, mainVars, written, make_rss_args, synthetic, raised, dateVars, extractVars>>

\* finish()
HandlerFinish ==
    /\ pc = "collect"
    /\ LET r == SingleFileFinish(feed_list) IN
         /\ raised' = r.exc
         /\ synthetic' = r.synthetic
         /\ make_rss_args' = make_rss_args \o r.calls
         /\ written' = written \o [i \in 1..Len(r.out) |-> [file |-> OutFile, rss |-> r.out[i]]]
    /\ pc' = "finished"
    /\ UNCHANGED <<mainVars, feed_list, dateVars, extractVars>>

InitMerge == pc = "collect" /\ MainIdle /\ HandlerIdle /\ DateIdle /\ ExtractIdle

NextMerge == Collect \/ HandlerFinish

SpecMerge == InitMerge /\ [][NextMerge]_vars

\* ------------------------------------------- parse_pubdate on its own

InitDate ==
    /\ pc = "input"
    /\ MainIdle /\ HandlerIdle /\ ExtractIdle
    /\ \/ \E f \in DateFragments : date_src = Some(f) /\ date_str = Assemble(f)
       \/ date_src = None /\ date_str \in PlainTexts
    /\ this_year \in ReferenceYears
    /\ now_utc \in Clocks
    /\ resolved = Pending

\* parse_pubdate(date_str, this_year)
Resolve ==
    /\ pc = "input"
    /\ resolved' = parse_pubdate(date_str, this_year, now_utc)
    /\ pc' = "resolved"
    /\ UNCHANGED <<mainVars, handlerVars, date_str, date_src, this_year, now_utc, extractVars>>

NextDate == Resolve

SpecDate == InitDate /\ [][NextDate]_vars

\* ------------------------------------------ extract_entries on its own

InitExtract ==
    /\ pc = "input"
    /\ MainIdle /\ HandlerIdle
    /\ DateIdle
    /\ document \in Documents
    /\ extracted = [exc |-> "pending", val |-> <<>>]

\* extract_entries(soup)
Extract ==
    /\ pc = "input"
    /\ extracted' = extract_entries(document, now_utc)
    /\ pc' = "extracted"
    /\ UNCHANGED <<mainVars, handlerVars, dateVars, document>>

NextExtract == Extract

SpecExtract == InitExtract /\ [][NextExtract]_vars

\* ================================================================ claims

IsFailure(o) == o # "ok"
Failures(os) == Cardinality({i \in 1..Len(os) : IsFailure(os[i])})

\* main() has left the loop normally and run output_handler.finish().
RanFinish == pc = "exited" /\ key_idx > Len(author_keys)
\* main() has stopped at the top of an iteration, keys left unprocessed.
Aborted == pc = "exited" /\ key_idx <= Len(author_keys) /\ raised = "none"

\* ---------------------------------------------------------------- C1
\* C1: once main() has exited (its options accepted), the exit code is 1 if
\* some author key failed fetch, parse or validation, and 0 if every author
\* key was fetched, parsed and validated.
C1_ExitCodeTellsFailure ==
    pc = "exited" =>
       /\ Failures(outcomes) > 0 => exit_code = Some(1)
       /\ (Len(outcomes) = Len(author_keys) /\ Failures(outcomes) = 0) => exit_code = Some(0)

\* ---------------------------------------------------------------- C2
\* C2: each iteration that ends in a failure adds one to nerrors; once
\* nerrors has reached 2 no further sleep or fetch happens and the only step
\* left ends the process; a process that exits with nerrors >= 2 exits
\* non-zero.
C2_TwoFailuresAreFatal ==
    /\ [](pc \in {"exited", "rejected"} /\ nerrors >= 2 => exit_code # None /\ exit_code # Some(0))
    /\ [][/\ (outcomes' # outcomes /\ IsFailure(outcomes'[Len(outcomes')]))
               => nerrors' = nerrors + 1
          /\ nerrors >= 2 => (events' = events /\ outcomes' = outcomes /\ pc' = "exited")]_vars

\* C2 witness: an abort with a key left, after two failures.
C2_Witness == Aborted /\ nerrors = 2 /\ Len(events) = 4 /\ Len(author_keys) > 2

\* ---------------------------------------------------------------- C3
\* C3 as stated: the run is aborted before processing all keys only when the
\* two most recently processed keys both failed.
C3_AbortOnlyAfterConsecutiveFailures ==
    Aborted => /\ Len(outcomes) >= 2
               /\ IsFailure(outcomes[Len(outcomes)])
               /\ IsFailure(outcomes[Len(outcomes) - 1])

\* C3 amended: a failure is fatal when it is the second failure of the run,
\* consecutive or not. The counter is the number of failed keys so far (a
\* success never takes a failure back), a run is aborted exactly with two
\* failed keys behind it, and no key is processed once two have failed.
C3_AbortAfterTwoFailuresInTotal ==
    /\ pc \in {"loop", "exited"} => nerrors = Failures(outcomes)
    /\ Aborted => Failures(outcomes) = 2
    /\ outcomes # <<>> => Failures(SubSeq(outcomes, 1, Len(outcomes) - 1)) < 2

\* C3 witness: an abort although a success lies between the two failures.
C3_Witness ==
    /\ Aborted
    /\ Len(outcomes) = 3
    /\ IsFailure(outcomes[1]) /\ outcomes[2] = "ok" /\ IsFailure(outcomes[3])

\* ---------------------------------------------------------------- C8
\* C8: sleeps and fetches alternate, one sleep right before each fetch; the
\* first sleep is of 0 seconds and every later one of the configured
\* interval, which is at least 1; every processed key, failed or not, was
\* fetched after its sleep; a rejected interval means no fetch at all.
C8_DelayBetweenFetches ==
    /\ pc = "rejected" => events = <<>>
    /\ Len(events) = 2 * Len(outcomes)
    /\ \A k \in 1..Len(outcomes) :
          /\ events[2 * k - 1].op = "sleep"
          /\ events[2 * k] = Fetch(author_keys[k])
          /\ events[2 * k - 1].secs = IF k = 1 THEN 0 ELSE http_wait
    /\ events # <<>> => http_wait >= 1

\* C8 witness: a second fetch after a key whose fetch failed.
C8_Witness ==
    /\ Len(outcomes) >= 2
    /\ outcomes[1] = "fetch"
    /\ events[3] = Sleep(http_wait)
    /\ events[4].op = "fetch"

\* ---------------------------------------------------------------- C9
\* C9: every FeedData passed to make_rss has a non-empty author, no
\* 'author is required' error ends a run, and every feed an output handler
\* holds or has rendered passes validate_feeddata.
C9_RenderingNeverFails ==
    /\ \A i \in 1..Len(make_rss_args) : ~Falsy(make_rss_args[i].author)
    /\ raised # "ValueError"
    /\ \A i \in 1..Len(feed_list) :
          ~Falsy(feed_list[i].author) /\ ~Falsy(feed_list[i].title) /\ ~Falsy(feed_list[i].url)
    /\ Len(written) <= Len(make_rss_args)

\* C9 witness: a merged feed was rendered, after per-author feeds were
\* collected.
C9_Witness == RanFinish /\ synthetic # None /\ Len(make_rss_args) = 2 /\ Len(written) = 1

\* --------------------------------------------------------------- C10
\* C10: after finish() in single-file mode, a synthetic feed exists only if
\* two or more feeds were collected; a single collected feed is rendered as
\* it is; with no collected feed finish() ends without an exception and
\* without rendering anything.
C10_MergeOnlyForTwoOrMore ==
    (RanFinish /\ ~SeparateMode(output_directory)) =>
       /\ synthetic # None => Len(feed_list) >= 2
       /\ Len(feed_list) = 1 => (synthetic = None /\ make_rss_args = <<feed_list[1]>>)
       /\ Len(feed_list) = 0 => (raised = "none" /\ synthetic = None /\ make_rss_args = <<>>)

\* ------------------------------------------------------------ C4, C5
Merged == Val(synthetic).entries
MergeInput == Concat([i \in 1..Len(feed_list) |-> feed_list[i].entries])
PlaceIn(seq, e) == CHOOSE i \in 1..Len(seq) : seq[i] = e

\* a is more recent than b, or as recent with the greater title
Outranks(a, b) ==
    \/ a.pubdate # None /\ b.pubdate # None /\ DatetimeLT(Val(b.pubdate), Val(a.pubdate))
    \/ /\ a.pubdate = b.pubdate
       /\ a.title # None /\ b.title # None /\ StrLT(Val(b.title), Val(a.title))
SameRank(a, b) == a.pubdate = b.pubdate /\ a.title = b.title

\* C4: when finish() has merged two or more feeds, the synthetic feed's
\* entries are the inputs' entries, each exactly once, no entry after one it
\* outranks by (pubdate, title), and entries of equal (pubdate, title) in
\* their input order.
C4_MergedEntriesStablySorted ==
    (pc = "finished" /\ synthetic # None) =>
       /\ Len(feed_list) >= 2
       /\ Len(Merged) = Len(MergeInput)
       /\ \A i \in 1..Len(MergeInput) : \E j \in 1..Len(Merged) : Merged[j] = MergeInput[i]
       /\ \A i, j \in 1..Len(Merged) :
             i < j => /\ Merged[i] # Merged[j]
                      /\ ~Outranks(Merged[j], Merged[i])
                      /\ SameRank(Merged[i], Merged[j])
                            => PlaceIn(MergeInput, Merged[i]) < PlaceIn(MergeInput, Merged[j])

\* C4 witness: a merge whose input held two entries of equal rank and an
\* entry placed before one that outranks it.
C4_Witness ==
    /\ pc = "finished" /\ synthetic # None
    /\ \E i, j \in 1..Len(MergeInput) : i < j /\ SameRank(MergeInput[i], MergeInput[j])
    /\ \E i, j \in 1..Len(MergeInput) : i < j /\ Outranks(MergeInput[j], MergeInput[i])

\* C5: when finish() merges feeds that hold an entry without pubdate, the
\* merge completes with a synthetic feed, and in it every entry without
\* pubdate comes after every entry with one.
C5_UndatedEntriesSortLast ==
    (/\ pc = "finished"
     /\ Len(feed_list) >= 2
     /\ \E i \in 1..Len(MergeInput) : MergeInput[i].pubdate = None) =>
       /\ raised = "none"
       /\ synthetic # None
       /\ \A i, j \in 1..Len(Merged) :
             (Merged[i].pubdate = None /\ Merged[j].pubdate # None) => j < i

\* ---------------------------------------------------------------- C6
EntryItems == find_all_entries(Val(document.athr_al))
HasAttr(results, name) == results # <<>> /\ name \in DOMAIN results[1].attrs
\* the date slot is absent, or its text resolves
DateSlotResolves(li) ==
    li.dd_pubdate = <<>> \/ parse_pubdate(JoinStrings(li.dd_pubdate[1]), None, now_utc).exc = "none"

\* C6: extract_entries returns (it does not raise) one Entry per list item
\* tagged as an entry, the url absent exactly when the primary anchor or its
\* href is missing and the thumbnail absent exactly when the image or its
\* src is missing. Stated for the documents whose date slots resolve.
C6_ExtractionNeverFails ==
    (/\ pc = "extracted"
     /\ document.athr_al # None
     /\ \A i \in 1..Len(EntryItems) : DateSlotResolves(EntryItems[i])) =>
       /\ extracted.exc = "none"
       /\ Len(extracted.val) = Len(EntryItems)
       /\ \A i \in 1..Len(extracted.val) :
             /\ extracted.val[i].url = None <=> ~HasAttr(EntryItems[i].a_entryBody, "href")
             /\ extracted.val[i].thumbnail = None <=> ~HasAttr(EntryItems[i].dd_thumb_img, "src")

\* ---------------------------------------------------------------- C7
\* The year the claim asks for: the text's own when it has one, else the
\* reference year when supplied, else the current year in Asia/Tokyo.
ClaimedYear(f) ==
    IF f.year # None THEN int(Val(f.year))
    ELSE IF this_year # None THEN Val(this_year)
    ELSE TokyoYearNow(now_utc)

\* C7: a text holding a date and a time resolves to the calendar date made
\* of the claimed year and the text's month, day, hour and minute, in
\* Asia/Tokyo; a text holding no date and time resolves to None.
C7_YearResolution ==
    pc = "resolved" =>
       IF date_src = None THEN resolved = Ok(None)
       ELSE LET f == Val(date_src)
            IN  resolved = datetime(ClaimedYear(f), int(f.month), int(f.day),
                                    int(f.hour), int(f.minute), TZ_TOKYO)
=============================================================================
